---- MODULE Spec2Model ----
(***************************************************************************)
(* State-machine model of WalletDatabase (src/Hackada/backend.py): the     *)
(* in-memory account store `users` and the transaction log `transactions`. *)
(* Spec makes the calls register_user, add_money, send_money and           *)
(* get_transactions one after the other, each call one step.  SpecRegister *)
(* and SpecConcurrent make them from several threads, a step being what a  *)
(* thread does between two points where the interpreter may switch.        *)
(*                                                                         *)
(* Number domains.  A Decimal is modelled by its exact value in hundredths *)
(* (Decimal('1000.00') is 100000).  A Python float is modelled by the      *)
(* record [repr |-> c], c being the value in hundredths of the decimal     *)
(* literal str() prints for it.  Within the amounts used here (two         *)
(* fractional digits, fewer than 15 significant digits) str(float) prints  *)
(* the literal the float was read from, Decimal arithmetic is exact (the   *)
(* default context keeps 28 digits) and float(Decimal) is the double whose *)
(* str() is that Decimal again.  A float and a Decimal are different       *)
(* values of the model: they are related only through DecimalStr and       *)
(* FloatOfDecimal.                                                         *)
(***************************************************************************)
EXTENDS Integers, Sequences, FiniteSets, TLC

VARIABLES
    users,          \* self.users: the dict, as its records in insertion order
    transactions,   \* self.transactions: the list
    uuids,          \* number of uuid.uuid4() values drawn so far
    clock,          \* the last tick datetime.now() returned, 0 before the first reading
    deposited,      \* sum of Decimal(str(amount)) over the add_money calls that succeeded
    call,           \* the last call made: its name and arguments
    ret,            \* what the last call returned
    before,         \* users and transactions as they were when the last call began
    threads         \* the calls in progress when calls run in several threads

vars == <<users, transactions, uuids, clock, deposited, call, ret, before, threads>>

----------------------------------------------------------------------------
(* Bounds of the exploration *)

MaxLog == 2         \* a call is explored when the log it leaves holds at most MaxLog entries

----------------------------------------------------------------------------
(* Values *)

\* Python's None, where a string is returned otherwise
None == "None"

\* An optional value (a value or None) is a sequence of length 0 or 1
Nothing == <<>>
Some(v) == <<v>>

\* Decimal(str(amount)), amount a float: the decimal str() prints, exactly
DecimalStr(amount) == amount.repr

\* float(d), d a Decimal: the nearest double, which prints as d again
FloatOfDecimal(d) == [repr |-> d]

\* float(amount), amount already a float: the same float
FloatOfAmount(amount) == amount

\* hashlib.sha256(password.encode()).hexdigest(): a function of the password
_hash_password(password) == "sha256:" \o password

\* str(uuid.uuid4()): the n-th value drawn; a 36-character string, so never '1' or '2',
\* and taken to differ from every value drawn before it
uuid4(n) == "uuid-" \o ToString(n)

----------------------------------------------------------------------------
(* Inputs of the calls *)

Emails == {"alice@example.com", "bob@example.com", "carol@example.com"}
Passwords == {"password123"}
LoginPasswords == {"password123", "guess"}
FullNames == {"Carol Jones"}
Descriptions == {"", "rent"}
AmountReprs == {0 - 60000, 0, 50000}
Amounts == {[repr |-> c] : c \in AmountReprs}
UnknownId == "999"
UserIds == {users[i].id : i \in DOMAIN users} \cup {UnknownId}

\* limit=10 when get_transactions is called without a limit
DefaultLimit == 10
Limits == {0, 1, DefaultLimit}

----------------------------------------------------------------------------
(* WalletDatabase.__init__ *)

InitUsers ==
    << [id |-> "1", email |-> "alice@example.com",
        password_hash |-> _hash_password("password123"),
        full_name |-> "Alice Smith", balance |-> 100000],
       [id |-> "2", email |-> "bob@example.com",
        password_hash |-> _hash_password("password123"),
        full_name |-> "Bob Johnson", balance |-> 50000] >>

NoCall == [op |-> "__init__", user_id |-> "", email |-> "", password |-> "",
           full_name |-> "", amount |-> [repr |-> 0], description |-> "",
           limit |-> 0]

NoRet == [user |-> Nothing, balance |-> Nothing, tx |-> Nothing, error |-> None,
          txs |-> <<>>]

\* The threads that call into the one WalletDatabase (the module-level db). A thread
\* makes one call: pc is where it stands in the method, call the method and arguments,
\* s and r the positions of the accounts its loops found, read the balance an update
\* in progress has read and not yet written back, pending the log entries it has built
\* and not yet appended, ret what it returned, seen the store as a read found it.
Threads == {"t1", "t2", "t3"}

\* the threads that make the wallet calls (add_money, send_money, get_balance,
\* get_transactions) when these are followed statement by statement
WalletThreads == {"t1", "t2"}

IdleThread ==
    [pc |-> "idle", call |-> NoCall, s |-> 0, r |-> 0, read |-> 0, pending |-> <<>>,
     ret |-> NoRet, seen |-> [users |-> <<>>, transactions |-> <<>>]]

Init ==
    /\ users = InitUsers
    /\ transactions = <<>>
    /\ uuids = 0
    /\ clock = 0
    /\ deposited = 0
    /\ call = NoCall
    /\ ret = NoRet
    /\ before = [users |-> InitUsers, transactions |-> <<>>]
    /\ threads = [t \in Threads |-> IdleThread]

----------------------------------------------------------------------------
(* Dict and list helpers *)

\* the indices a loop over self.users.values() visits with user['id'] == id
IdMatches(us, id) == {i \in DOMAIN us : us[i].id = id}

\* ... and with user['email'] == email (the key of the record is its email)
EmailMatches(us, email) == {i \in DOMAIN us : us[i].email = email}

\* (mutant) the store is replaced by one that holds the new account only
DictSet_StoreReplaced(us, email, user) == <<user>>

\* self.users[email] = user: replaces the value of a present key in place,
\* appends a new key at the end
DictSet(us, email, user) ==
    IF EmailMatches(us, email) # {}
    THEN [i \in DOMAIN us |-> IF us[i].email = email THEN user ELSE us[i]]
    ELSE Append(us, user)

\* (mutant) the membership test looks the email up among the ids
HasKey_ById(us, email) == \E i \in DOMAIN us : us[i].id = email

\* email in self.users
HasKey(us, email) == \E i \in DOMAIN us : us[i].email = email

Min(S) == CHOOSE x \in S : \A y \in S : x <= y
Max(S) == CHOOSE x \in S : \A y \in S : x >= y

\* datetime.now().isoformat() read when the last reading was c: the first reading is
\* tick 1 (c = 0: none yet), a later one shows the same tick or the next (the wall
\* clock is taken not to step back). A timestamp is the tick it was read at; isoformat
\* strings order as their instants.
Now(c) == IF c = 0 THEN {1} ELSE {c, c + 1}

----------------------------------------------------------------------------
(* register_user *)

register_user(email, password, full_name) ==
    LET user == [id |-> uuid4(uuids + 1), email |-> email,
                 password_hash |-> _hash_password(password),
                 full_name |-> full_name, balance |-> 0]
    IN  /\ call' = [NoCall EXCEPT !.op = "register_user", !.email = email,
                                  !.password = password, !.full_name = full_name]
        /\ before' = [users |-> users, transactions |-> transactions]
        /\ IF HasKey(users, email)
           THEN /\ ret' = [NoRet EXCEPT !.error = "Email already registered"]
                /\ UNCHANGED <<users, transactions, uuids, clock, deposited>>
           ELSE /\ users' = DictSet(users, email, user)
                /\ uuids' = uuids + 1
                /\ ret' = [NoRet EXCEPT !.user = Some(user)]
                /\ UNCHANGED <<transactions, clock, deposited>>

----------------------------------------------------------------------------
(* add_money *)

\* (mutant) the balance is assigned, not increased
add_money_balance_Assigned(user, amount) == DecimalStr(amount)

\* user['balance'] += Decimal(str(amount))
add_money_balance(user, amount) == user.balance + DecimalStr(amount)

\* (mutant) balance_after is read before the balance is increased
credit_tx_StaleBalance(txid, user_id, amount, timestamp, balance) ==
    [id |-> txid, user_id |-> user_id, type |-> "credit",
     amount |-> FloatOfAmount(amount),
     description |-> "Added money to wallet",
     timestamp |-> timestamp,
     balance_after |-> FloatOfDecimal(balance - DecimalStr(amount))]

\* (mutant) the new entry is put at the head of the list
append_transaction_AtHead(txs, transaction) == <<transaction>> \o txs

\* self.transactions.append(transaction)
append_transaction(txs, transaction) == Append(txs, transaction)

\* the transaction dict of add_money
credit_tx(txid, user_id, amount, timestamp, balance) ==
    [id |-> txid, user_id |-> user_id, type |-> "credit",
     amount |-> FloatOfAmount(amount),
     description |-> "Added money to wallet",
     timestamp |-> timestamp,
     balance_after |-> FloatOfDecimal(balance)]

add_money(user_id, amount) ==
    /\ call' = [NoCall EXCEPT !.op = "add_money", !.user_id = user_id, !.amount = amount]
    /\ before' = [users |-> users, transactions |-> transactions]
    /\ IF IdMatches(users, user_id) # {}
       THEN LET i == Min(IdMatches(users, user_id))
                balance == add_money_balance(users[i], amount)
            IN  \E t \in Now(clock) :
                   LET transaction == credit_tx(uuid4(uuids + 1), user_id, amount, t, balance)
                   IN  /\ Len(transactions) + 1 <= MaxLog
                       /\ users' = [users EXCEPT ![i].balance = balance]
                       /\ transactions' = append_transaction(transactions, transaction)
                       /\ uuids' = uuids + 1
                       /\ clock' = t
                       /\ deposited' = deposited + DecimalStr(amount)
                       /\ ret' = [NoRet EXCEPT !.balance = Some(balance),
                                               !.tx = Some(transaction)]
       ELSE /\ ret' = [NoRet EXCEPT !.error = "User not found"]
            /\ UNCHANGED <<users, transactions, uuids, clock, deposited>>

----------------------------------------------------------------------------
(* send_money *)

\* (mutant) the balance is checked before the recipient and the self-transfer
send_money_error_BalanceFirst(us, sender_id, recipient_email, amount) ==
    IF IdMatches(us, sender_id) = {} THEN "Sender not found"
    ELSE IF us[Max(IdMatches(us, sender_id))].balance < DecimalStr(amount)
         THEN "Insufficient balance"
    ELSE IF EmailMatches(us, recipient_email) = {} THEN "Recipient not found"
    ELSE IF us[Max(IdMatches(us, sender_id))].email = recipient_email
         THEN "Cannot send money to yourself"
    ELSE None

\* the loop and the four checks, in the order of the code; None when all pass
send_money_error(us, sender_id, recipient_email, amount) ==
    IF IdMatches(us, sender_id) = {} THEN "Sender not found"
    ELSE IF EmailMatches(us, recipient_email) = {} THEN "Recipient not found"
    ELSE IF us[Max(IdMatches(us, sender_id))].email = recipient_email
         THEN "Cannot send money to yourself"
    ELSE IF us[Max(IdMatches(us, sender_id))].balance < DecimalStr(amount)
         THEN "Insufficient balance"
    ELSE None

\* (mutant) the debit has the wrong sign
send_money_debit_Added(sender, amount) == sender.balance + DecimalStr(amount)

\* sender['balance'] -= Decimal(str(amount))
send_money_debit(sender, amount) == sender.balance - DecimalStr(amount)

\* (mutant) the recipient is not credited
send_money_credit_Lost(recipient, amount) == recipient.balance

\* recipient['balance'] += Decimal(str(amount))
send_money_credit(recipient, amount) == recipient.balance + DecimalStr(amount)

\* "Process transfer": the accounts after the debit and the credit
process_transfer(us, s, r, amount) ==
    LET debited == [us EXCEPT ![s].balance = send_money_debit(us[s], amount)]
    IN  [debited EXCEPT ![r].balance = send_money_credit(debited[r], amount)]

\* (mutant) the sender is debited before the balance is checked
send_money_users_DebitFirst(us, sender_id, recipient_email, amount) ==
    LET error == send_money_error(us, sender_id, recipient_email, amount)
        s == Max(IdMatches(us, sender_id))
        r == Max(EmailMatches(us, recipient_email))
    IN  IF error = "Insufficient balance"
        THEN [us EXCEPT ![s].balance = send_money_debit(us[s], amount)]
        ELSE IF error # None THEN us
        ELSE process_transfer(us, s, r, amount)

\* the accounts send_money leaves: as they were when a check fails, else after the transfer
send_money_users(us, sender_id, recipient_email, amount) ==
    IF send_money_error(us, sender_id, recipient_email, amount) # None
    THEN us
    ELSE process_transfer(us, Max(IdMatches(us, sender_id)),
                          Max(EmailMatches(us, recipient_email)), amount)

\* description or f'Sent to {recipient_email}'
sender_description(description, recipient_email) ==
    IF description # "" THEN description ELSE "Sent to " \o recipient_email

sender_tx(txid, sender_id, amount, description, recipient_email, timestamp, balance) ==
    [id |-> txid, user_id |-> sender_id, type |-> "transfer_out",
     amount |-> FloatOfAmount(amount),
     description |-> sender_description(description, recipient_email),
     recipient_email |-> recipient_email,
     timestamp |-> timestamp,
     balance_after |-> FloatOfDecimal(balance)]

\* (mutant) the recipient's balance_after is the balance before the credit
recipient_tx_StaleBalance(txid, recipient_id, amount, sender_email, timestamp, balance) ==
    [id |-> txid, user_id |-> recipient_id, type |-> "transfer_in",
     amount |-> FloatOfAmount(amount),
     description |-> "Received from " \o sender_email,
     sender_email |-> sender_email,
     timestamp |-> timestamp,
     balance_after |-> FloatOfDecimal(balance - DecimalStr(amount))]

recipient_tx(txid, recipient_id, amount, sender_email, timestamp, balance) ==
    [id |-> txid, user_id |-> recipient_id, type |-> "transfer_in",
     amount |-> FloatOfAmount(amount),
     description |-> "Received from " \o sender_email,
     sender_email |-> sender_email,
     timestamp |-> timestamp,
     balance_after |-> FloatOfDecimal(balance)]

\* (mutant) only the sender's entry is appended
extend_transactions_SenderOnly(txs, stx, rtx) == txs \o <<stx>>

\* self.transactions.extend([sender_tx, recipient_tx])
extend_transactions(txs, stx, rtx) == txs \o <<stx, rtx>>

send_money(sender_id, recipient_email, amount, description) ==
    /\ call' = [NoCall EXCEPT !.op = "send_money", !.user_id = sender_id,
                              !.email = recipient_email, !.amount = amount,
                              !.description = description]
    /\ before' = [users |-> users, transactions |-> transactions]
    /\ LET error == send_money_error(users, sender_id, recipient_email, amount)
       IN  IF error # None
           THEN /\ ret' = [NoRet EXCEPT !.error = error]
                /\ users' = send_money_users(users, sender_id, recipient_email, amount)
                /\ UNCHANGED <<transactions, uuids, clock, deposited>>
           ELSE LET s == Max(IdMatches(users, sender_id))
                    r == Max(EmailMatches(users, recipient_email))
                    moved == send_money_users(users, sender_id, recipient_email, amount)
                IN  \E t1 \in Now(clock) : \E t2 \in Now(t1) :
                       LET stx == sender_tx(uuid4(uuids + 1), sender_id, amount, description,
                                            recipient_email, t1, moved[s].balance)
                           rtx == recipient_tx(uuid4(uuids + 2), moved[r].id, amount,
                                               moved[s].email, t2, moved[r].balance)
                       IN  /\ Len(transactions) + 2 <= MaxLog
                           /\ users' = moved
                           /\ transactions' = extend_transactions(transactions, stx, rtx)
                           /\ uuids' = uuids + 2
                           /\ clock' = t2
                           /\ UNCHANGED deposited
                           /\ ret' = [NoRet EXCEPT !.balance = Some(moved[s].balance),
                                                   !.tx = Some(stx)]

----------------------------------------------------------------------------
(* get_transactions *)

\* [tx for tx in self.transactions if tx['user_id'] == user_id]: a new list
user_txs(txs, user_id) == SelectSeq(txs, LAMBDA tx : tx.user_id = user_id)

\* (mutant) reverse=True is missing: the list is sorted oldest first
RECURSIVE sort_reverse_Ascending(_)
sort_reverse_Ascending(txs) ==
    IF txs = <<>> THEN <<>>
    ELSE LET sorted == sort_reverse_Ascending(SubSeq(txs, 1, Len(txs) - 1))
             tx == txs[Len(txs)]
             k == Cardinality({i \in DOMAIN sorted : sorted[i].timestamp <= tx.timestamp})
         IN  SubSeq(sorted, 1, k) \o <<tx>> \o SubSeq(sorted, k + 1, Len(sorted))

\* list.sort(key=lambda x: x['timestamp'], reverse=True): descending by timestamp, and
\* stable (entries of equal timestamp keep the order they had in the list). Each entry,
\* taken in list order, goes behind the entries already placed whose timestamp is not
\* smaller than its own.
RECURSIVE sort_reverse(_)
sort_reverse(txs) ==
    IF txs = <<>> THEN <<>>
    ELSE LET sorted == sort_reverse(SubSeq(txs, 1, Len(txs) - 1))
             tx == txs[Len(txs)]
             k == Cardinality({i \in DOMAIN sorted : sorted[i].timestamp >= tx.timestamp})
         IN  SubSeq(sorted, 1, k) \o <<tx>> \o SubSeq(sorted, k + 1, Len(sorted))

\* s[:limit]: the first limit elements, all of s when it has fewer; a negative limit
\* drops the last -limit elements
slice(s, limit) ==
    IF limit >= 0
    THEN SubSeq(s, 1, IF limit < Len(s) THEN limit ELSE Len(s))
    ELSE SubSeq(s, 1, IF Len(s) + limit > 0 THEN Len(s) + limit ELSE 0)

\* (mutant) the sort is made on self.transactions itself
get_transactions_log_SortedInPlace(txs, user_id) == sort_reverse(txs)

\* self.transactions after get_transactions: the comprehension copies the entries it
\* keeps into a new list, and the sort and the slice work on that list
get_transactions_log(txs, user_id) == txs

\* what get_transactions returns
get_transactions_result(txs, user_id, limit) ==
    slice(sort_reverse(user_txs(txs, user_id)), limit)

get_transactions(user_id, limit) ==
    /\ call' = [NoCall EXCEPT !.op = "get_transactions", !.user_id = user_id,
                              !.limit = limit]
    /\ before' = [users |-> users, transactions |-> transactions]
    /\ ret' = [NoRet EXCEPT !.txs = get_transactions_result(transactions, user_id, limit)]
    /\ transactions' = get_transactions_log(transactions, user_id)
    /\ UNCHANGED <<users, uuids, clock, deposited>>

----------------------------------------------------------------------------
(* get_balance and login_user *)

\* the balance get_balance returns: the account's, Decimal('0.00') when no account has
\* the id
get_balance_result(us, user_id) ==
    IF IdMatches(us, user_id) # {} THEN us[Min(IdMatches(us, user_id))].balance ELSE 0

get_balance(user_id) ==
    /\ call' = [NoCall EXCEPT !.op = "get_balance", !.user_id = user_id]
    /\ before' = [users |-> users, transactions |-> transactions]
    /\ ret' = [NoRet EXCEPT !.balance = Some(get_balance_result(users, user_id))]
    /\ UNCHANGED <<users, transactions, uuids, clock, deposited>>

\* self.users after self.users.get(email): get never adds or removes a key
users_get_store(us, email) == us

\* self.users.get(email): the account stored under the email, or None
users_get(us, email) ==
    IF EmailMatches(us, email) # {} THEN Some(us[Min(EmailMatches(us, email))]) ELSE Nothing

login_user(email, password) ==
    LET user == users_get(users, email)
    IN  /\ call' = [NoCall EXCEPT !.op = "login_user", !.email = email,
                                  !.password = password]
        /\ before' = [users |-> users, transactions |-> transactions]
        /\ users' = users_get_store(users, email)
        /\ IF user = Nothing \/ user[1].password_hash # _hash_password(password)
           THEN ret' = [NoRet EXCEPT !.error = "Invalid email or password"]
           ELSE ret' = [NoRet EXCEPT !.user = user]
        /\ UNCHANGED <<transactions, uuids, clock, deposited>>

----------------------------------------------------------------------------
(* The specification: any sequence of calls *)

\* A call that changed neither the accounts nor the log (a rejected call) leaves users,
\* transactions, uuids and clock as they were: the calls that may follow it are those
\* that may follow the state it was made in, and they are explored from that state.
\* The reachable states are the same with and without this condition.
LastCallChangedState ==
    call.op = "__init__" \/ users # before.users \/ transactions # before.transactions

Next ==
    \/ /\ LastCallChangedState
       /\ UNCHANGED threads
       /\ \E email \in Emails, password \in Passwords, full_name \in FullNames :
             register_user(email, password, full_name)
    \/ /\ LastCallChangedState
       /\ UNCHANGED threads
       /\ \E user_id \in UserIds, amount \in Amounts :
             add_money(user_id, amount)
    \/ /\ LastCallChangedState
       /\ UNCHANGED threads
       /\ \E sender_id \in UserIds, recipient_email \in Emails,
             amount \in Amounts, description \in Descriptions :
             send_money(sender_id, recipient_email, amount, description)
    \/ /\ LastCallChangedState
       /\ UNCHANGED threads
       /\ \E user_id \in UserIds, limit \in Limits :
             get_transactions(user_id, limit)
    \/ /\ LastCallChangedState
       /\ UNCHANGED threads
       /\ \E user_id \in UserIds : get_balance(user_id)
    \/ /\ LastCallChangedState
       /\ UNCHANGED threads
       /\ \E email \in Emails, password \in LoginPasswords : login_user(email, password)

Spec == Init /\ [][Next]_vars

----------------------------------------------------------------------------
(* Calls made from several threads.  The methods of WalletDatabase take no   *)
(* lock, and the interpreter may switch threads wherever a statement makes   *)
(* a call: between a membership test and the store that follows it, between  *)
(* the read and the write of `x['balance'] += ...`, between two statements.  *)
(* A step below is what one thread does between two such points.            *)

store == <<users, transactions, uuids, clock, deposited>>

\* thread t moves on: to pc, with the fields of its record that changed
Goto(t, pc, changed) ==
    threads' = [threads EXCEPT ![t] = [f \in DOMAIN threads[t] |->
                   IF f = "pc" THEN pc
                   ELSE IF f \in DOMAIN changed THEN changed[f]
                   ELSE threads[t][f]]]

\* thread t returns ret
Return(t, ret_t) == Goto(t, "done", [ret |-> ret_t])

\* (mutant) the store is behind a lock that a call takes when its body starts and does
\* not give back
may_run_LockKept(ths, t) == \A u \in DOMAIN ths : u # t => ths[u].pc \in {"idle", "called"}

\* a method body starts whenever its thread is scheduled: it waits for no lock, no
\* condition and no other call
may_run(ths, t) == TRUE

\* thread t calls a method: c is the method and its arguments
invoke(t, c) ==
    /\ threads[t].pc = "idle"
    /\ Goto(t, "called", [call |-> c])
    /\ UNCHANGED <<store, call, ret, before>>

Entered(t, op) ==
    /\ threads[t].pc = "called"
    /\ threads[t].call.op = op
    /\ may_run(threads, t)

----------------------------------------------------------------------------
(* register_user, thread by thread *)

\* if email in self.users: return None, "Email already registered"
register_user_check(t) ==
    /\ Entered(t, "register_user")
    /\ IF HasKey(users, threads[t].call.email)
       THEN Return(t, [NoRet EXCEPT !.error = "Email already registered"])
       ELSE Goto(t, "register_user_store", <<>>)
    /\ UNCHANGED <<store, call, ret, before>>

\* user = {...}; self.users[email] = user; return user, None
register_user_store(t) ==
    LET c == threads[t].call
        user == [id |-> uuid4(uuids + 1), email |-> c.email,
                 password_hash |-> _hash_password(c.password),
                 full_name |-> c.full_name, balance |-> 0]
    IN  /\ threads[t].pc = "register_user_store"
        /\ users' = DictSet(users, c.email, user)
        /\ uuids' = uuids + 1
        /\ Return(t, [NoRet EXCEPT !.user = Some(user)])
        /\ UNCHANGED <<transactions, clock, deposited, call, ret, before>>

RegisterCalls ==
    {[NoCall EXCEPT !.op = "register_user", !.email = email,
                    !.password = password, !.full_name = full_name] :
        email \in Emails, password \in Passwords, full_name \in FullNames}

RegisterNext ==
    \E t \in Threads :
        \/ \E c \in RegisterCalls : invoke(t, c)
        \/ register_user_check(t)
        \/ register_user_store(t)

\* register_user called from any of the threads, at any time
SpecRegister == Init /\ [][RegisterNext]_vars

----------------------------------------------------------------------------
(* add_money, thread by thread *)

\* the loop, and the read of user['balance'] that `+=` begins with
add_money_read(t) ==
    LET c == threads[t].call
    IN  /\ Entered(t, "add_money")
        /\ IF IdMatches(users, c.user_id) # {}
           THEN LET i == Min(IdMatches(users, c.user_id))
                IN  Goto(t, "add_money_store", [s |-> i, read |-> users[i].balance])
           ELSE Return(t, [NoRet EXCEPT !.error = "User not found"])
        /\ UNCHANGED <<store, call, ret, before>>

\* the write `+=` ends with: the balance read, plus the amount
add_money_store(t) ==
    LET c == threads[t].call
        i == threads[t].s
        balance == add_money_balance([users[i] EXCEPT !.balance = threads[t].read], c.amount)
    IN  /\ threads[t].pc = "add_money_store"
        /\ users' = [users EXCEPT ![i].balance = balance]
        /\ Goto(t, "add_money_entry", <<>>)
        /\ UNCHANGED <<transactions, uuids, clock, deposited, call, ret, before>>

\* transaction = {...}: balance_after is the balance as it is now
add_money_entry(t) ==
    LET c == threads[t].call
        i == threads[t].s
    IN  /\ threads[t].pc = "add_money_entry"
        /\ \E tm \in Now(clock) :
              /\ Goto(t, "add_money_append",
                      [pending |-> <<credit_tx(uuid4(uuids + 1), c.user_id, c.amount, tm,
                                               users[i].balance)>>])
              /\ clock' = tm
        /\ uuids' = uuids + 1
        /\ UNCHANGED <<users, transactions, deposited, call, ret, before>>

\* self.transactions.append(transaction); return user['balance'], transaction
add_money_append(t) ==
    LET c == threads[t].call
        i == threads[t].s
        transaction == threads[t].pending[1]
    IN  /\ threads[t].pc = "add_money_append"
        /\ transactions' = append_transaction(transactions, transaction)
        /\ deposited' = deposited + DecimalStr(c.amount)
        /\ Return(t, [NoRet EXCEPT !.balance = Some(users[i].balance),
                                   !.tx = Some(transaction)])
        /\ UNCHANGED <<users, uuids, clock, call, ret, before>>

----------------------------------------------------------------------------
(* send_money, thread by thread *)

\* the two loops and the four checks
send_money_check(t) ==
    LET c == threads[t].call
        error == send_money_error(users, c.user_id, c.email, c.amount)
    IN  /\ Entered(t, "send_money")
        /\ IF error # None
           THEN Return(t, [NoRet EXCEPT !.error = error])
           ELSE Goto(t, "send_money_debit_read",
                     [s |-> Max(IdMatches(users, c.user_id)),
                      r |-> Max(EmailMatches(users, c.email))])
        /\ UNCHANGED <<store, call, ret, before>>

\* sender['balance'] -= ...: the read
send_money_debit_read(t) ==
    /\ threads[t].pc = "send_money_debit_read"
    /\ Goto(t, "send_money_debit_store", [read |-> users[threads[t].s].balance])
    /\ UNCHANGED <<store, call, ret, before>>

\* sender['balance'] -= ...: the write
send_money_debit_store(t) ==
    LET i == threads[t].s
        balance == send_money_debit([users[i] EXCEPT !.balance = threads[t].read],
                                    threads[t].call.amount)
    IN  /\ threads[t].pc = "send_money_debit_store"
        /\ users' = [users EXCEPT ![i].balance = balance]
        /\ Goto(t, "send_money_credit_read", <<>>)
        /\ UNCHANGED <<transactions, uuids, clock, deposited, call, ret, before>>

\* recipient['balance'] += ...: the read
send_money_credit_read(t) ==
    /\ threads[t].pc = "send_money_credit_read"
    /\ Goto(t, "send_money_credit_store", [read |-> users[threads[t].r].balance])
    /\ UNCHANGED <<store, call, ret, before>>

\* recipient['balance'] += ...: the write
send_money_credit_store(t) ==
    LET i == threads[t].r
        balance == send_money_credit([users[i] EXCEPT !.balance = threads[t].read],
                                     threads[t].call.amount)
    IN  /\ threads[t].pc = "send_money_credit_store"
        /\ users' = [users EXCEPT ![i].balance = balance]
        /\ Goto(t, "send_money_entries", <<>>)
        /\ UNCHANGED <<transactions, uuids, clock, deposited, call, ret, before>>

\* sender_tx = {...}; recipient_tx = {...}: each balance_after is the balance as it is now
send_money_entries(t) ==
    LET c == threads[t].call
        sender == users[threads[t].s]
        recipient == users[threads[t].r]
    IN  /\ threads[t].pc = "send_money_entries"
        /\ \E t1 \in Now(clock) : \E t2 \in Now(t1) :
              /\ Goto(t, "send_money_extend",
                      [pending |->
                          <<sender_tx(uuid4(uuids + 1), c.user_id, c.amount, c.description,
                                      c.email, t1, sender.balance),
                            recipient_tx(uuid4(uuids + 2), recipient.id, c.amount,
                                         sender.email, t2, recipient.balance)>>])
              /\ clock' = t2
        /\ uuids' = uuids + 2
        /\ UNCHANGED <<users, transactions, deposited, call, ret, before>>

\* self.transactions.extend([sender_tx, recipient_tx]); return sender['balance'], sender_tx
send_money_extend(t) ==
    LET stx == threads[t].pending[1]
        rtx == threads[t].pending[2]
    IN  /\ threads[t].pc = "send_money_extend"
        /\ transactions' = extend_transactions(transactions, stx, rtx)
        /\ Return(t, [NoRet EXCEPT !.balance = Some(users[threads[t].s].balance),
                                   !.tx = Some(stx)])
        /\ UNCHANGED <<users, uuids, clock, deposited, call, ret, before>>

----------------------------------------------------------------------------
(* get_balance and get_transactions, thread by thread *)

\* the loop of get_balance and its return
get_balance_read(t) ==
    /\ Entered(t, "get_balance")
    /\ Goto(t, "done",
            [ret |-> [NoRet EXCEPT
                        !.balance = Some(get_balance_result(users, threads[t].call.user_id))],
             seen |-> [users |-> users, transactions |-> transactions]])
    /\ UNCHANGED <<store, call, ret, before>>

\* the comprehension of get_transactions, which reads the log, then the sort and the
\* slice of the list it built
get_transactions_read(t) ==
    LET c == threads[t].call
    IN  /\ Entered(t, "get_transactions")
        /\ Goto(t, "done",
                [ret |-> [NoRet EXCEPT
                            !.txs = get_transactions_result(transactions, c.user_id, c.limit)],
                 seen |-> [users |-> users, transactions |-> transactions]])
        /\ UNCHANGED <<store, call, ret, before>>

----------------------------------------------------------------------------
(* The specification of concurrent wallet calls: each thread makes one call *)

ConcurrentAmount == [repr |-> 50000]

ConcurrentCalls ==
    {[NoCall EXCEPT !.op = "add_money", !.user_id = "1", !.amount = ConcurrentAmount],
     [NoCall EXCEPT !.op = "send_money", !.user_id = "1", !.email = "bob@example.com",
                    !.amount = ConcurrentAmount],
     [NoCall EXCEPT !.op = "send_money", !.user_id = "2", !.email = "alice@example.com",
                    !.amount = ConcurrentAmount],
     [NoCall EXCEPT !.op = "get_balance", !.user_id = "1"],
     [NoCall EXCEPT !.op = "get_balance", !.user_id = "2"],
     [NoCall EXCEPT !.op = "get_transactions", !.user_id = "1", !.limit = DefaultLimit]}

\* what thread t may do next
ThreadStep(t) ==
    \/ \E c \in ConcurrentCalls : invoke(t, c)
    \/ add_money_read(t)
    \/ add_money_store(t)
    \/ add_money_entry(t)
    \/ add_money_append(t)
    \/ send_money_check(t)
    \/ send_money_debit_read(t)
    \/ send_money_debit_store(t)
    \/ send_money_credit_read(t)
    \/ send_money_credit_store(t)
    \/ send_money_entries(t)
    \/ send_money_extend(t)
    \/ get_balance_read(t)
    \/ get_transactions_read(t)

ConcurrentNext == \E t \in WalletThreads : ThreadStep(t)

SpecConcurrent == Init /\ [][ConcurrentNext]_vars

\* Every thread that can take a step is scheduled again: the interpreter hands the
\* lock over at intervals, and no step of a call waits for another thread.
SpecConcurrentFair == SpecConcurrent /\ \A t \in WalletThreads : WF_vars(ThreadStep(t))

----------------------------------------------------------------------------
(* Vocabulary of the properties.  These read the state (users, transactions) *)
(* and the record of the last call (call, ret, before) directly.             *)

\* the decimal value an amount stored or passed as a float prints as
ValueOf(amount) == amount.repr

Known(us, id) == \E i \in DOMAIN us : us[i].id = id
Registered(us, email) == \E i \in DOMAIN us : us[i].email = email
AccountById(us, id) == us[CHOOSE i \in DOMAIN us : us[i].id = id]
AccountByEmail(us, email) == us[CHOOSE i \in DOMAIN us : us[i].email = email]

RECURSIVE Total(_)
Total(us) == IF us = <<>> THEN 0 ELSE Head(us).balance + Total(Tail(us))

\* the balance effect of a log entry: credit and transfer_in add, transfer_out subtracts
Signed(tx) ==
    IF tx.type \in {"credit", "transfer_in"} THEN ValueOf(tx.amount)
    ELSE 0 - ValueOf(tx.amount)

RECURSIVE LogSum(_, _)
LogSum(txs, id) ==
    IF txs = <<>> THEN 0
    ELSE (IF Head(txs).user_id = id THEN Signed(Head(txs)) ELSE 0) + LogSum(Tail(txs), id)

\* the balance an account was created with: seeded in __init__, 0 at register_user
OpeningBalance(id) ==
    IF Known(InitUsers, id) THEN AccountById(InitUsers, id).balance ELSE 0

Unchanged == users = before.users /\ transactions = before.transactions

Succeeded(op) == call.op = op /\ ret.error = None

\* the preconditions of a transfer, read in the state the call began in
SenderKnown == Known(before.users, call.user_id)
RecipientKnown == Registered(before.users, call.email)
SelfTransfer == AccountById(before.users, call.user_id).email = call.email
Insufficient == AccountById(before.users, call.user_id).balance < ValueOf(call.amount)

----------------------------------------------------------------------------
(* C1 *)

\* C1 (Conservation): in every reachable state the balances sum to the seeded opening
\* balances plus the amounts of the add_money calls that succeeded, and no send_money
\* call, successful or rejected, changes the sum.
C1_Conservation ==
    /\ Total(users) = Total(InitUsers) + deposited
    /\ call.op = "send_money" => Total(users) = Total(before.users)

\* a transfer of a positive amount went through
C1_Witness ==
    /\ Succeeded("send_money")
    /\ ValueOf(call.amount) > 0
    /\ users # before.users

----------------------------------------------------------------------------
(* C2 *)

\* a call that, applied, takes some balance below zero
WouldGoNegative ==
    \/ /\ call.op = "add_money"
       /\ Known(before.users, call.user_id)
       /\ AccountById(before.users, call.user_id).balance + ValueOf(call.amount) < 0
    \/ /\ call.op = "send_money"
       /\ SenderKnown /\ RecipientKnown /\ ~SelfTransfer
       /\ \/ AccountById(before.users, call.user_id).balance - ValueOf(call.amount) < 0
          \/ AccountByEmail(before.users, call.email).balance + ValueOf(call.amount) < 0

\* C2 (Non-negativity): whatever amounts add_money and send_money are called with (zero
\* and negative ones too), every balance is >= 0 after every call, and a call that would
\* take a balance below zero returns "Insufficient balance" and changes neither the
\* balances nor the log.
C2_NonNegativity ==
    /\ \A i \in DOMAIN users : users[i].balance >= 0
    /\ WouldGoNegative => ret.error = "Insufficient balance" /\ Unchanged

----------------------------------------------------------------------------
(* C3 *)

\* C3 (Reconstruction, as claimed): every account's balance, the two seeded accounts
\* included, equals its credit and transfer_in amounts minus its transfer_out amounts.
C3_Reconstruction ==
    \A i \in DOMAIN users : users[i].balance = LogSum(transactions, users[i].id)

\* C3 (Reconstruction, amended): every account's balance equals its opening balance (the
\* seeded one, or 0 at registration) plus its credit and transfer_in amounts minus its
\* transfer_out amounts, each amount read as the decimal it prints as.
C3_ReconstructionFromOpening ==
    \A i \in DOMAIN users :
        users[i].balance = OpeningBalance(users[i].id) + LogSum(transactions, users[i].id)

\* a seeded account that received a transfer and no longer holds its opening balance
C3_Witness ==
    \E i \in DOMAIN users :
        /\ Known(InitUsers, users[i].id)
        /\ users[i].balance # OpeningBalance(users[i].id)
        /\ \E k \in DOMAIN transactions :
              transactions[k].user_id = users[i].id /\ transactions[k].type = "transfer_in"

----------------------------------------------------------------------------
(* C4 *)

\* C4 (Pairing): every transfer_out entry is immediately followed by a transfer_in entry
\* of equal amount whose sender_email is the email of the transfer_out's owner and whose
\* owner's email is the transfer_out's recipient_email; every transfer_in entry
\* immediately follows a transfer_out entry, so neither exists without its partner.
C4_Pairing ==
    \A k \in DOMAIN transactions :
        /\ transactions[k].type = "transfer_out" =>
              /\ k + 1 <= Len(transactions)
              /\ transactions[k + 1].type = "transfer_in"
              /\ transactions[k + 1].amount = transactions[k].amount
              /\ Known(users, transactions[k].user_id)
              /\ Known(users, transactions[k + 1].user_id)
              /\ transactions[k + 1].sender_email =
                    AccountById(users, transactions[k].user_id).email
              /\ AccountById(users, transactions[k + 1].user_id).email =
                    transactions[k].recipient_email
        /\ transactions[k].type = "transfer_in" =>
              k > 1 /\ transactions[k - 1].type = "transfer_out"

\* the log ends with a transfer_out entry followed by its transfer_in
C4_Witness ==
    /\ Len(transactions) >= 2
    /\ transactions[Len(transactions) - 1].type = "transfer_out"
    /\ transactions[Len(transactions)].type = "transfer_in"

----------------------------------------------------------------------------
(* C5 *)

\* C5 (Atomicity under failure): an add_money or send_money call that returns an error
\* leaves every balance, the set of accounts and the log as they were before the call.
C5_AtomicityUnderFailure ==
    (call.op \in {"add_money", "send_money"} /\ ret.error # None) => Unchanged

\* a transfer of more than the sender holds was rejected
C5_Witness ==
    /\ call.op = "send_money"
    /\ ret.error = "Insufficient balance"
    /\ SenderKnown /\ Insufficient

----------------------------------------------------------------------------
(* C6 *)

\* C6 (Idempotent identity): register_user with an email already present, seeded or
\* registered earlier, returns "Email already registered" and no user, and leaves the
\* existing account, all other accounts and the log unchanged.
C6_IdempotentIdentity ==
    (call.op = "register_user" /\ Registered(before.users, call.email)) =>
        /\ ret.error = "Email already registered"
        /\ ret.user = Nothing
        /\ Unchanged

\* a second registration of an email that register_user itself had added
C6_Witness ==
    /\ call.op = "register_user"
    /\ Registered(before.users, call.email)
    /\ ~Registered(InitUsers, call.email)

----------------------------------------------------------------------------
(* C7 *)

InvalidAmount == "InvalidAmount"

\* C7 (Amount validation): add_money or send_money called with amount <= 0 is rejected
\* with InvalidAmount, whatever the other arguments, and changes neither a balance nor
\* the log.
C7_AmountValidation ==
    (call.op \in {"add_money", "send_money"} /\ ValueOf(call.amount) <= 0) =>
        ret.error = InvalidAmount /\ Unchanged

----------------------------------------------------------------------------
(* C8 *)

\* C8 (Transfer precondition order): send_money reports the first failing check in the
\* order sender not found, recipient not found, self-transfer, insufficient balance.
C8_PreconditionOrder ==
    call.op = "send_money" =>
        /\ ~SenderKnown => ret.error = "Sender not found"
        /\ (SenderKnown /\ ~RecipientKnown) => ret.error = "Recipient not found"
        /\ (SenderKnown /\ RecipientKnown /\ SelfTransfer) =>
              ret.error = "Cannot send money to yourself"
        /\ (SenderKnown /\ RecipientKnown /\ ~SelfTransfer /\ Insufficient) =>
              ret.error = "Insufficient balance"

\* a self-transfer of more than the balance was reported as a self-transfer
C8_Witness ==
    /\ call.op = "send_money"
    /\ SenderKnown /\ RecipientKnown /\ SelfTransfer /\ Insufficient
    /\ ret.error = "Cannot send money to yourself"

----------------------------------------------------------------------------
(* C9 *)

TransferPreconditions ==
    /\ call.op = "send_money"
    /\ SenderKnown /\ RecipientKnown /\ ~SelfTransfer
    /\ 0 < ValueOf(call.amount)
    /\ ~Insufficient

\* C9 (Transfer effect): a send_money call whose preconditions hold takes exactly amount
\* from the sender, adds exactly amount to the recipient, appends to the end of the log
\* the sender's transfer_out and right after it the recipient's transfer_in, each naming
\* the other party's email, and returns the sender's new balance and the sender's entry.
C9_TransferEffect ==
    TransferPreconditions =>
        LET sender == AccountById(before.users, call.user_id)
            recipient == AccountByEmail(before.users, call.email)
            n == Len(before.transactions)
        IN  /\ ret.error = None
            /\ AccountById(users, sender.id).balance = sender.balance - ValueOf(call.amount)
            /\ AccountById(users, recipient.id).balance =
                  recipient.balance + ValueOf(call.amount)
            /\ Len(transactions) = n + 2
            /\ SubSeq(transactions, 1, n) = before.transactions
            /\ transactions[n + 1].type = "transfer_out"
            /\ transactions[n + 1].user_id = sender.id
            /\ transactions[n + 1].recipient_email = recipient.email
            /\ ValueOf(transactions[n + 1].amount) = ValueOf(call.amount)
            /\ transactions[n + 2].type = "transfer_in"
            /\ transactions[n + 2].user_id = recipient.id
            /\ transactions[n + 2].sender_email = sender.email
            /\ ValueOf(transactions[n + 2].amount) = ValueOf(call.amount)
            /\ ret.balance = Some(sender.balance - ValueOf(call.amount))
            /\ ret.tx = Some(transactions[n + 1])

\* a sender transferred the whole of a positive balance
C9_Witness ==
    /\ TransferPreconditions
    /\ ValueOf(call.amount) = AccountById(before.users, call.user_id).balance

----------------------------------------------------------------------------
(* C10 *)

\* C10 (Credit effect): add_money on an existing id with amount > 0 adds exactly amount
\* to that account, appends one credit entry of that account whose balance_after is the
\* returned balance, and returns that balance and that entry; add_money on an unknown id
\* returns "User not found".
C10_CreditEffect ==
    call.op = "add_money" =>
        /\ (Known(before.users, call.user_id) /\ ValueOf(call.amount) > 0) =>
              LET account == AccountById(before.users, call.user_id)
                  n == Len(before.transactions)
              IN  /\ ret.error = None
                  /\ AccountById(users, call.user_id).balance =
                        account.balance + ValueOf(call.amount)
                  /\ Len(transactions) = n + 1
                  /\ SubSeq(transactions, 1, n) = before.transactions
                  /\ transactions[n + 1].type = "credit"
                  /\ transactions[n + 1].user_id = call.user_id
                  /\ ValueOf(transactions[n + 1].amount) = ValueOf(call.amount)
                  /\ ret.balance = Some(account.balance + ValueOf(call.amount))
                  /\ ValueOf(transactions[n + 1].balance_after) = ret.balance[1]
                  /\ ret.tx = Some(transactions[n + 1])
        /\ ~Known(before.users, call.user_id) => ret.error = "User not found"

\* a positive amount was added to an account that register_user had created
C10_Witness ==
    /\ Succeeded("add_money")
    /\ ValueOf(call.amount) > 0
    /\ Known(before.users, call.user_id)
    /\ ~Known(InitUsers, call.user_id)

----------------------------------------------------------------------------
(* C11 *)

\* the positions of the log that hold an entry of account id
EntriesOf(txs, id) == {k \in DOMAIN txs : txs[k].user_id = id}

\* the same log entry (entries of different types have different fields)
SameEntry(a, b) == a.id = b.id /\ a = b

\* C11 (History selection): what get_transactions(user_id, limit) returns holds only
\* entries of the log whose user_id is user_id, none of them twice, ordered from the
\* newest timestamp to the oldest, min(limit, number of that account's entries) of them
\* (limit is 10 when not given), and these are the newest ones: no entry left out is
\* newer than an entry returned.
C11_HistorySelection ==
    call.op = "get_transactions" =>
        LET r == ret.txs
            mine == EntriesOf(transactions, call.user_id)
            n == Cardinality(mine)
        IN  /\ \A j \in DOMAIN r : r[j].user_id = call.user_id
            /\ \A j \in DOMAIN r : \E k \in mine : SameEntry(transactions[k], r[j])
            /\ \A i, j \in DOMAIN r : i # j => r[i].id # r[j].id
            /\ \A i, j \in DOMAIN r : i < j => r[i].timestamp >= r[j].timestamp
            /\ Len(r) = IF call.limit < n THEN call.limit ELSE n
            /\ \A k \in mine :
                  (\A j \in DOMAIN r : r[j].id # transactions[k].id)
                  => \A j \in DOMAIN r : r[j].timestamp >= transactions[k].timestamp

\* an account with two entries of different timestamps was asked for its newest entry
C11_Witness ==
    /\ call.op = "get_transactions"
    /\ call.limit = 1
    /\ Len(ret.txs) = 1
    /\ \E k1, k2 \in EntriesOf(transactions, call.user_id) :
          transactions[k1].timestamp < transactions[k2].timestamp

----------------------------------------------------------------------------
(* C12 *)

\* the position in the log of the entry with this id
PositionOf(txs, id) == CHOOSE k \in DOMAIN txs : txs[k].id = id

\* C12 (History tie-break): of two entries that get_transactions returns with the same
\* timestamp, the one that was put into the log later comes first.
C12_TieBreak ==
    call.op = "get_transactions" =>
        \A i, j \in DOMAIN ret.txs :
            (i < j /\ ret.txs[i].timestamp = ret.txs[j].timestamp)
            => PositionOf(transactions, ret.txs[i].id) > PositionOf(transactions, ret.txs[j].id)

----------------------------------------------------------------------------
(* C13 *)

AccountNotFound == "AccountNotFound"

\* C13 (History of an unknown account): get_transactions called with a user_id that no
\* account has fails with AccountNotFound; it does not return an empty list.
C13_UnknownAccountHistory ==
    (call.op = "get_transactions" /\ ~Known(before.users, call.user_id))
    => ret.error = AccountNotFound

----------------------------------------------------------------------------
(* C14 *)

IsPrefix(s, t) == Len(s) <= Len(t) /\ SubSeq(t, 1, Len(s)) = s

\* C14 (Append-only log): the log as it was when a call began is a prefix of the log the
\* call leaves, whatever the call (get_transactions included): no entry is removed,
\* changed or moved, and new entries only go to the end.
C14_AppendOnly == IsPrefix(before.transactions, transactions)

\* a call added an entry to a log that already held one
C14_Witness ==
    /\ Len(before.transactions) >= 1
    /\ Len(transactions) > Len(before.transactions)

----------------------------------------------------------------------------
(* C15 *)

\* the threads whose call of op has returned without an error
Returned(t) == threads[t].pc = "done"
SucceededIn(t, op) ==
    Returned(t) /\ threads[t].call.op = op /\ threads[t].ret.error = None

\* C15 (Identity uniqueness): in every state, also when register_user is called from
\* several threads for the same email, no two accounts of the store have the same id,
\* no two have the same email, and of the register_user calls made for an email at most
\* one has succeeded.
C15_IdentityUniqueness ==
    /\ \A i, j \in DOMAIN users :
          i # j => users[i].id # users[j].id /\ users[i].email # users[j].email
    /\ \A email \in Emails :
          Cardinality({t \in Threads : /\ SucceededIn(t, "register_user")
                                      /\ threads[t].call.email = email}) <= 1

----------------------------------------------------------------------------
(* C16 *)

\* C16 (Positive log amounts): every entry of the log has an amount greater than zero,
\* whatever arguments the calls were given.
C16_PositiveLogAmounts ==
    \A k \in DOMAIN transactions : ValueOf(transactions[k].amount) > 0

----------------------------------------------------------------------------
(* C17 *)

\* what a log entry says, its id and timestamp left out
Effect(user_id, type, value, balance_after) ==
    [user_id |-> user_id, type |-> type, amount |-> value, balance_after |-> balance_after]

EffectsOf(txs) ==
    [k \in DOMAIN txs |-> Effect(txs[k].user_id, txs[k].type, ValueOf(txs[k].amount),
                                 ValueOf(txs[k].balance_after))]

\* the accounts and the log after call c is made, alone, in the store st
AfterCall(st, c) ==
    IF c.op = "add_money" /\ Known(st.users, c.user_id)
    THEN LET i == CHOOSE k \in DOMAIN st.users : st.users[k].id = c.user_id
             balance == st.users[i].balance + ValueOf(c.amount)
         IN  [users |-> [st.users EXCEPT ![i].balance = balance],
              log |-> Append(st.log, Effect(c.user_id, "credit", ValueOf(c.amount), balance))]
    ELSE IF /\ c.op = "send_money"
            /\ Known(st.users, c.user_id)
            /\ Registered(st.users, c.email)
            /\ AccountById(st.users, c.user_id).email # c.email
            /\ AccountById(st.users, c.user_id).balance >= ValueOf(c.amount)
    THEN LET i == CHOOSE k \in DOMAIN st.users : st.users[k].id = c.user_id
             j == CHOOSE k \in DOMAIN st.users : st.users[k].email = c.email
             debited == st.users[i].balance - ValueOf(c.amount)
             credited == st.users[j].balance + ValueOf(c.amount)
         IN  [users |-> [st.users EXCEPT ![i].balance = debited, ![j].balance = credited],
              log |-> st.log \o <<Effect(c.user_id, "transfer_out", ValueOf(c.amount), debited),
                                  Effect(st.users[j].id, "transfer_in", ValueOf(c.amount),
                                         credited)>>]
    ELSE st

IsMutation(t) == threads[t].call.op \in {"add_money", "send_money"}

\* C17 (Serialized mutations): when the add_money and send_money calls made from
\* different threads have all returned, the accounts and the log are those that the same
\* calls leave when made one after the other in some order: no update is lost, and no
\* transfer has gone through for more than its sender held.
C17_SerializedMutations ==
    (\A t \in WalletThreads : Returned(t) /\ IsMutation(t))
    => \E t1, t2 \in WalletThreads :
          /\ t1 # t2
          /\ LET serial == AfterCall(AfterCall([users |-> InitUsers, log |-> <<>>],
                                               threads[t1].call), threads[t2].call)
             IN  /\ users = serial.users
                 /\ EffectsOf(transactions) = serial.log

----------------------------------------------------------------------------
(* C18 *)

IsRead(t) == threads[t].call.op \in {"get_balance", "get_transactions"}

\* the balances of the store are the ones its log accounts for
Settled(us, txs) ==
    \A i \in DOMAIN us : us[i].balance = OpeningBalance(us[i].id) + LogSum(txs, us[i].id)

\* C18 (Transfer atomicity to readers): a get_balance or get_transactions call made
\* while a send_money call runs in another thread finds the store with all four effects
\* of the transfer or with none: never the sender debited and the recipient not yet
\* credited, nor the balances changed and the two entries not yet in the log.
C18_TransferAtomicity ==
    \A t \in WalletThreads :
        (/\ Returned(t)
         /\ IsRead(t)
         /\ \A u \in WalletThreads \ {t} : threads[u].call.op = "send_money")
        => Settled(threads[t].seen.users, threads[t].seen.transactions)

----------------------------------------------------------------------------
(* C19 *)

\* C19 (No indefinite blocking): every add_money, send_money, get_balance and
\* get_transactions call that a thread has made returns in the end, whatever the other
\* thread is doing, two transfers in opposite directions between the same two accounts
\* included.  Stated for threads that are scheduled again and again.
C19_NoIndefiniteBlocking ==
    \A t \in WalletThreads : (threads[t].pc = "called") ~> Returned(t)

\* two transfers in opposite directions between alice and bob, made at the same time,
\* have both returned
C19_Witness ==
    /\ \A t \in WalletThreads : SucceededIn(t, "send_money")
    /\ \E t, u \in WalletThreads :
          /\ threads[t].call.user_id = "1" /\ threads[t].call.email = "bob@example.com"
          /\ threads[u].call.user_id = "2" /\ threads[u].call.email = "alice@example.com"

----------------------------------------------------------------------------
(* C20 *)

\* the entry of account id that was put into the log last
LastEntryOf(txs, id) == txs[Max(EntriesOf(txs, id))]

\* C20 (balance_after checkpoint): calls being made one after the other, for every
\* account that has a log entry the balance_after of its most recently appended entry
\* is the account's current balance.
C20_BalanceAfterCheckpoint ==
    \A i \in DOMAIN users :
        EntriesOf(transactions, users[i].id) # {}
        => ValueOf(LastEntryOf(transactions, users[i].id).balance_after) = users[i].balance

\* a transfer of a positive amount was the last call: the last entry of its recipient
\* is the transfer_in entry, and the recipient's balance is no longer what it was
C20_Witness ==
    /\ Succeeded("send_money")
    /\ ValueOf(call.amount) > 0
    /\ LET recipient == AccountByEmail(users, call.email)
       IN  /\ LastEntryOf(transactions, recipient.id).type = "transfer_in"
           /\ recipient.balance # AccountByEmail(before.users, call.email).balance

----------------------------------------------------------------------------
(* C21 *)

IsReadCall == call.op \in {"get_balance", "get_transactions", "login_user"}

\* C21 (Pure reads): get_balance, get_transactions and login_user, whatever their
\* arguments, leave every account of the store (id, email, name, balance) and the log
\* (its entries, their fields, their order) as they were when the call began.
C21_PureReads == IsReadCall => Unchanged

\* a history was read whose order is not the order of the log
C21_Witness ==
    /\ call.op = "get_transactions"
    /\ Len(ret.txs) = 2
    /\ ret.txs[1].id = transactions[2].id
    /\ ret.txs[2].id = transactions[1].id

----------------------------------------------------------------------------
(* C22 *)

Ids(us) == {us[i].id : i \in DOMAIN us}

\* the account that had this id when the call began is in the store as it was
SameAccount(id) == AccountById(users, id) = AccountById(before.users, id)

\* ... or as it was but for its balance
SameButBalance(id) ==
    [AccountById(users, id) EXCEPT !.balance = 0]
        = [AccountById(before.users, id) EXCEPT !.balance = 0]

\* C22 (Account lifecycle frame): across every call, every account that was in the
\* store is still there with the id, email and other fields it had, its balance apart.
\* add_money changes the balance of no account but the one it names; send_money that of
\* no account but the sender and the recipient; a register_user call that succeeds adds
\* one account, with balance 0 and an id no account had, and leaves the other accounts
\* and the log as they were.
C22_LifecycleFrame ==
    /\ \A id \in Ids(before.users) : Known(users, id) /\ SameButBalance(id)
    /\ \A i, j \in DOMAIN users : i # j => users[i].id # users[j].id
    /\ ~Succeeded("register_user") => Ids(users) = Ids(before.users)
    /\ call.op = "add_money"
          => \A id \in Ids(before.users) : id # call.user_id => SameAccount(id)
    /\ call.op = "send_money"
          => \A id \in Ids(before.users) :
                (id # call.user_id /\ AccountById(before.users, id).email # call.email)
                => SameAccount(id)
    /\ Succeeded("register_user")
          => /\ Len(users) = Len(before.users) + 1
             /\ \A id \in Ids(before.users) : SameAccount(id)
             /\ \E id \in Ids(users) \ Ids(before.users) :
                   /\ AccountById(users, id).email = call.email
                   /\ AccountById(users, id).balance = 0
             /\ transactions = before.transactions

\* an account was registered in a store whose log and balances had already moved
C22_Witness ==
    /\ Succeeded("register_user")
    /\ Len(transactions) >= 1
    /\ \E id \in Ids(before.users) :
          AccountById(users, id).balance # OpeningBalance(id)

====
